---- MODULE Spec2Model ----
(***************************************************************************)
(* Model of databricks/labs/ucx/support/listing.py.                        *)
(*                                                                         *)
(* Spec        WorkspaceListing.walk: the orchestrator loop, the work      *)
(*             items of the ThreadPoolExecutor and their done-callbacks.   *)
(* FairSpec    Spec with the fairness of a running thread pool.            *)
(* SpecWide    Spec over trees of one entry more, with several             *)
(*             directories directly under start_path.                      *)
(* SpecLister  threads calling _list_workspace through its limiter.        *)
(* FairLister  SpecLister with running threads and an advancing clock.     *)
(* SpecRate    the limiter under more callers than its budget, with the    *)
(*             remote calls issued in each clock tick.                     *)
(* SpecListing the loop of workspace_listing over a walk result.           *)
(* SpecExperiments the loop of experiments_listing over the experiments.   *)
(* SpecAnalyze _list_and_analyze over the listing of one directory.        *)
(***************************************************************************)
EXTENDS Integers, Sequences, FiniteSets, TLC

(* ---- bounds of the model ---- *)
\* entries of the remote tree, the root included
MaxNodes == 3
\* num_threads of the WorkspaceListing under test
NumThreads == 2
\* length self.results may reach: walk is called again on the same
\* WorkspaceListing while a whole tree still fits
MaxResults == 4
\* clock ticks per second: the limiter's clock is read in ticks
TicksPerSecond == 2
\* threads calling _list_workspace whose calls are followed one by one
NumCallers == 2
\* anonymous callers of _list_workspace beyond the budget of one period
ExtraCallers == 1
\* entries of the list workspace_listing iterates over
MaxEntries == 3
\* experiments ws.experiments.list_experiments() returns
MaxExperiments == 2
\* tags of one experiment
MaxTags == 2
\* children in the listing of one directory
MaxChildren == 4

(* ---- program constants ---- *)
\* @limits(calls=45, period=1)
Calls == 45
Period == 1

VARIABLES
    tree,                \* the remote namespace: parent and object_type of each node
    pc,                  \* position of the thread that called walk
    results,             \* self.results
    counter,             \* self._counter
    futures_to_objects,  \* keys of the dict of walk: directories with an outstanding future
    futures_done,        \* futures_done of the current wait(), not yet iterated
    fut,                 \* state of the future submitted for each directory
    task,                \* position of the work item of each directory
    work_queue,          \* the executor's FIFO work queue
    cb_tmp,              \* value of self._counter read by a running _progress_report
    orch_tmp,            \* the same for the call of line 95
    error,               \* the exception walk raised and the directory whose listing raised it
    submits,             \* executor.submit calls per directory in this walk
    list_calls,          \* _list_workspace calls per directory in this walk
    reports,             \* _progress_report calls started in this walk
    counter0,            \* self._counter when this walk started
    results0,            \* len(self.results) when this walk started
    num_calls,           \* limiter: self.num_calls
    elapsed,             \* limiter: clock() - self.last_reset in ticks, kept up to the period
    lc_task,             \* SpecLister: position of each caller of _list_workspace
    lc_sleep,            \* SpecLister: ticks left of the caller's time.sleep
    lc_attempts,         \* SpecLister: passes of the caller through the wrapper of limits
    lc_calls,            \* SpecLister: ws.workspace.list calls made for the caller
    rl_ready,            \* SpecRate: callers about to pass the limiter
    rl_sleep,            \* SpecRate: callers in time.sleep, by ticks left
    rl_window,           \* SpecRate: remote calls issued in each of the last ticks
    entries,             \* SpecListing: the walk result iterated over
    idx,                 \* SpecListing: entries consumed
    request_type,        \* SpecListing: request_type of the entry consumed last
    yielded,             \* SpecListing: GenericPermissionsInfo records yielded
    experiments,         \* SpecExperiments: experiments list_experiments() gave so far
    ex_yielded,          \* SpecExperiments: experiments yielded so far
    an_tree,             \* SpecAnalyze: a directory and the children its listing returns
    an_result            \* SpecAnalyze: what _list_and_analyze returned for it

walkvars == <<tree, pc, results, counter, futures_to_objects, futures_done,
              fut, task, work_queue, cb_tmp, orch_tmp, error, submits,
              list_calls, reports, counter0, results0>>
limvars == <<num_calls, elapsed>>
listervars == <<lc_task, lc_sleep, lc_attempts, lc_calls>>
ratevars == <<rl_ready, rl_sleep, rl_window>>
listingvars == <<entries, idx, request_type, yielded>>
experimentvars == <<experiments, ex_yielded>>
analyzevars == <<an_tree, an_result>>
othervars == <<limvars, listervars, ratevars, listingvars, experimentvars, analyzevars>>
vars == <<walkvars, othervars>>

Min(a, b) == IF a < b THEN a ELSE b
Max(a, b) == IF a > b THEN a ELSE b

\* numbers of the entries: those of the trees of Spec and one more for the
\* trees of SpecWide
Nodes == 1..(MaxNodes + 1)
Root == 1

(* ---- the remote namespace ---- *)
\* object types a walked entry has here; only DIRECTORY is told apart by walk
WalkTypes == {"DIRECTORY", "FILE"}

\* Finite trees of at most MaxNodes entries: node 1 is the directory at
\* start_path, every other node lies in a DIRECTORY of smaller number.
TreeShapes ==
    UNION { { [n |-> n, parent |-> p, otype |-> t] :
                p \in { q \in [1..n -> 0..n] :
                          /\ q[1] = 0
                          /\ \A i \in 2..n : q[i] \in 1..(i-1) },
                t \in { u \in [1..n -> WalkTypes] : u[1] = "DIRECTORY" } }
            : n \in 1..MaxNodes }

WellFormed(tr) == \A i \in 2..tr.n : tr.otype[tr.parent[i]] = "DIRECTORY"

Trees == { tr \in TreeShapes : WellFormed(tr) }

RECURSIVE ChildrenFrom(_, _, _)
ChildrenFrom(tr, d, i) ==
    IF i > tr.n THEN <<>>
    ELSE (IF tr.parent[i] = d THEN <<i>> ELSE <<>>) \o ChildrenFrom(tr, d, i + 1)

\* ws.workspace.list(path, recursive=False): the immediate children, in listing order
WorkspaceList(tr, d) == ChildrenFrom(tr, d, 2)

IsDirectory(tr, i) == tr.otype[i] = "DIRECTORY"

\* the last maximal run of the entries of a listing whose key is b
LastRun(tr, listing, b) ==
    LET idxs == { i \in 1..Len(listing) : IsDirectory(tr, listing[i]) = b }
    IN IF idxs = {} THEN <<>>
       ELSE LET hi == CHOOSE i \in idxs : \A j \in idxs : j <= i
                lo == CHOOSE i \in idxs :
                        /\ \A j \in i..hi : j \in idxs
                        /\ (i - 1) \notin idxs
            IN SubSeq(listing, lo, hi)

\* a loop that assigns each run to its group instead of extending the group
KeepsLastRuns(tr, listing, directories, others) ==
    <<directories \o LastRun(tr, listing, TRUE), others \o LastRun(tr, listing, FALSE)>>

\* _list_and_analyze: groupby on "is a directory" yields maximal runs of equal
\* key; each run is appended whole to directories or to others.
RECURSIVE ListAndAnalyzeFrom(_, _, _, _)
ListAndAnalyzeFrom(tr, listing, directories, others) ==
    IF listing = <<>> THEN <<directories, others>>
    ELSE LET is_directory == IsDirectory(tr, Head(listing))
             run == CHOOSE k \in 1..Len(listing) :
                      /\ \A j \in 1..k : IsDirectory(tr, listing[j]) = is_directory
                      /\ (k = Len(listing) \/ IsDirectory(tr, listing[k+1]) # is_directory)
             objects == SubSeq(listing, 1, run)
             rest == SubSeq(listing, run + 1, Len(listing))
         IN IF is_directory
            THEN ListAndAnalyzeFrom(tr, rest, directories \o objects, others)
            ELSE ListAndAnalyzeFrom(tr, rest, directories, others \o objects)

ListAndAnalyze(tr, d) == ListAndAnalyzeFrom(tr, WorkspaceList(tr, d), <<>>, <<>>)

Range(s) == { s[i] : i \in 1..Len(s) }

(* ---- state left alone by a specification that does not use it ---- *)
NoTasks == [d \in Nodes |-> "none"]
Zeros == [d \in Nodes |-> 0]

WalkIdle ==
    /\ tree = [n |-> 1, parent |-> <<0>>, otype |-> <<"DIRECTORY">>]
    /\ pc = "idle"
    /\ results = <<>>
    /\ counter = 0
    /\ futures_to_objects = {}
    /\ futures_done = {}
    /\ fut = NoTasks
    /\ task = NoTasks
    /\ work_queue = <<>>
    /\ cb_tmp = Zeros
    /\ orch_tmp = 0
    /\ error = <<"none", 0>>
    /\ submits = Zeros
    /\ list_calls = Zeros
    /\ reports = 0
    /\ counter0 = 0
    /\ results0 = 0

LimiterIdle ==
    /\ num_calls = 0
    /\ elapsed = 0

ListerIdle ==
    /\ lc_task = <<>>
    /\ lc_sleep = <<>>
    /\ lc_attempts = <<>>
    /\ lc_calls = <<>>

RateIdle ==
    /\ rl_ready = 0
    /\ rl_sleep = <<>>
    /\ rl_window = <<>>

ListingIdle ==
    /\ entries = <<>>
    /\ idx = 0
    /\ request_type = "None"
    /\ yielded = <<>>

ExperimentsIdle ==
    /\ experiments = <<>>
    /\ ex_yielded = <<>>

AnalyzeIdle ==
    /\ an_tree = [n |-> 1, parent |-> <<0>>, otype |-> <<"DIRECTORY">>]
    /\ an_result = <<>>

(* ---- WorkspaceListing.__init__ ---- *)
Init ==
    /\ tree \in Trees
    /\ pc = "idle"
    /\ results = <<>>
    /\ counter = 0
    /\ futures_to_objects = {}
    /\ futures_done = {}
    /\ fut = NoTasks
    /\ task = NoTasks
    /\ work_queue = <<>>
    /\ cb_tmp = Zeros
    /\ orch_tmp = 0
    /\ error = <<"none", 0>>
    /\ submits = Zeros
    /\ list_calls = Zeros
    /\ reports = 0
    /\ counter0 = 0
    /\ results0 = 0
    /\ LimiterIdle
    /\ ListerIdle
    /\ RateIdle
    /\ ListingIdle
    /\ ExperimentsIdle
    /\ AnalyzeIdle

(* ---- the thread pool ---- *)
FutureDone == {"RESULT", "EXCEPTION"}
\* positions of a work item that hold a worker thread
Executing == {"list", "report", "report_w"}

\* a pool that counts a thread as taken only while it is in the listing
BusyListing == Cardinality({ d \in Nodes : task[d] = "list" })

Busy == Cardinality({ d \in Nodes : task[d] \in Executing })

\* executor.submit(self._list_and_analyze, d) followed by add_done_callback,
\* for each directory of the sequence in order: the new state of
\* <<fut, task, work_queue, submits>>
RECURSIVE SubmitAll(_, _)
SubmitAll(dirs, st) ==
    IF dirs = <<>> THEN st
    ELSE LET d == Head(dirs)
         IN SubmitAll(Tail(dirs),
                      <<[st[1] EXCEPT ![d] = "PENDING"],
                        [st[2] EXCEPT ![d] = "queued"],
                        Append(st[3], d),
                        [st[4] EXCEPT ![d] = @ + 1]>>)

\* a free worker thread takes the oldest work item and enters _list_and_analyze
Start(d) ==
    /\ work_queue # <<>>
    /\ d = Head(work_queue)
    /\ Busy < NumThreads
    /\ work_queue' = Tail(work_queue)
    /\ task' = [task EXCEPT ![d] = "list"]
    /\ fut' = [fut EXCEPT ![d] = "RUNNING"]
    /\ UNCHANGED <<tree, pc, results, counter, futures_to_objects, futures_done,
                   cb_tmp, orch_tmp, error, submits, list_calls, reports,
                   counter0, results0, othervars>>

\* a worker that puts its listing into self.results itself
ListWorkspaceAppending(d) ==
    /\ task[d] = "list"
    /\ list_calls' = [list_calls EXCEPT ![d] = @ + 1]
    /\ fut' = [fut EXCEPT ![d] = "RESULT"]
    /\ results' = results \o WorkspaceList(tree, d)
    /\ task' = [task EXCEPT ![d] = "report"]
    /\ UNCHANGED <<tree, pc, counter, futures_to_objects, futures_done,
                   work_queue, cb_tmp, orch_tmp, error, submits, reports,
                   counter0, results0, othervars>>

\* _list_and_analyze: self._list_workspace(obj.path) returns the children or
\* raises the remote error; the groups, or the error, complete the future.
\* The limiter in front of the call delays it and nothing else (SpecLister),
\* which the interleaving of this step with all others covers.
ListWorkspace(d) ==
    /\ task[d] = "list"
    /\ list_calls' = [list_calls EXCEPT ![d] = @ + 1]
    /\ \E ok \in BOOLEAN :
         fut' = [fut EXCEPT ![d] = IF ok THEN "RESULT" ELSE "EXCEPTION"]
    /\ task' = [task EXCEPT ![d] = "report"]
    /\ UNCHANGED <<tree, pc, results, counter, futures_to_objects, futures_done,
                   work_queue, cb_tmp, orch_tmp, error, submits, reports,
                   counter0, results0, othervars>>

\* line 34, self._counter += 1: the value written from the value read
Incremented(c) == c + 1

\* the done-callback _progress_report, run by the worker once the future is
\* complete: self._counter += 1 is a read ...
ReportRead(d) ==
    /\ task[d] = "report"
    /\ cb_tmp' = [cb_tmp EXCEPT ![d] = counter]
    /\ reports' = reports + 1
    /\ task' = [task EXCEPT ![d] = "report_w"]
    /\ UNCHANGED <<tree, pc, results, counter, futures_to_objects, futures_done,
                   fut, work_queue, orch_tmp, error, submits, list_calls,
                   counter0, results0, othervars>>

\* ... followed by a write, with no lock held in between
ReportWrite(d) ==
    /\ task[d] = "report_w"
    /\ counter' = Incremented(cb_tmp[d])
    /\ cb_tmp' = [cb_tmp EXCEPT ![d] = 0]
    /\ task' = [task EXCEPT ![d] = "finished"]
    /\ UNCHANGED <<tree, pc, results, futures_to_objects, futures_done,
                   fut, work_queue, orch_tmp, error, submits, list_calls,
                   reports, counter0, results0, othervars>>

(* ---- WorkspaceListing.walk ---- *)
\* lines 66-70: get_status(start_path) raises, or the root goes into
\* self.results. Nothing of self but start_time is set anew; the walk is
\* called on a new WorkspaceListing or on one walked before.
StartWalk ==
    /\ pc \in {"idle", "returned", "raised"}
    /\ Len(results) + tree.n <= MaxResults
    /\ counter0' = counter
    /\ results0' = Len(results)
    /\ futures_to_objects' = {}
    /\ futures_done' = {}
    /\ fut' = NoTasks
    /\ task' = NoTasks
    /\ submits' = Zeros
    /\ list_calls' = Zeros
    /\ reports' = 0
    /\ \E ok \in BOOLEAN :
         IF ok
         THEN /\ results' = Append(results, Root)
              /\ pc' = "submit_root"
              /\ error' = <<"none", 0>>
         ELSE /\ results' = results
              /\ pc' = "raised"
              /\ error' = <<"StatusError", 0>>
    /\ UNCHANGED <<tree, counter, work_queue, cb_tmp, orch_tmp, othervars>>

\* lines 73-75
SubmitRoot ==
    /\ pc = "submit_root"
    /\ LET st == SubmitAll(<<Root>>, <<fut, task, work_queue, submits>>)
       IN /\ fut' = st[1]
          /\ task' = st[2]
          /\ work_queue' = st[3]
          /\ submits' = st[4]
    /\ futures_to_objects' = {Root}
    /\ pc' = "loop"
    /\ UNCHANGED <<tree, results, counter, futures_done, cb_tmp, orch_tmp, error,
                   list_calls, reports, counter0, results0, othervars>>

\* a loop that stops while one future is still outstanding
LoopContinuesWhileSeveral(f2o) == Cardinality(f2o) > 1

\* line 76: while futures_to_objects
LoopContinues(f2o) == f2o # {}

\* a wait that returns only once every future is done
AllCompleted(f2o, fu) ==
    IF \A f \in f2o : fu[f] \in {"RESULT", "EXCEPTION"} THEN f2o ELSE {}

\* line 77: wait(futures_to_objects, return_when=FIRST_COMPLETED) returns once
\* a future is done, with every future that is done by then
FirstCompleted(f2o, fu) == { f \in f2o : fu[f] \in FutureDone }

Wait ==
    /\ pc = "loop"
    /\ LoopContinues(futures_to_objects)
    /\ FirstCompleted(futures_to_objects, fut) # {}
    /\ futures_done' = FirstCompleted(futures_to_objects, fut)
    /\ pc' = "process"
    /\ UNCHANGED <<tree, results, counter, futures_to_objects, fut, task,
                   work_queue, cb_tmp, orch_tmp, error, submits, list_calls,
                   reports, counter0, results0, othervars>>

\* a done future left in the dict
NotPopped(f2o, f) == f2o

\* line 80: futures_to_objects.pop(future)
Pop(f2o, f) == f2o \ {f}

\* the exception of a work item swallowed
ResultNeverRaises(fu, f) == FALSE

\* line 81: future.result() raises the exception the work item ended with
ResultRaises(fu, f) == fu[f] = "EXCEPTION"

\* a future submitted for every child, directory or not
NewFuturesForAllChildren(tr, f) == WorkspaceList(tr, f)

\* lines 85-90: the children a new future is submitted for
NewFutures(tr, f) == ListAndAnalyze(tr, f)[1]

\* lines 82-83: self.results.extend(directories); self.results.extend(others)
Extended(res, tr, f) == res \o ListAndAnalyze(tr, f)[1] \o ListAndAnalyze(tr, f)[2]

\* lines 79-91: one iteration of "for future in futures_done" (a set: any order)
ProcessFuture(f) ==
    /\ pc = "process"
    /\ f \in futures_done
    /\ IF ResultRaises(fut, f)
       THEN \* the with block is left by the exception
            /\ futures_to_objects' = Pop(futures_to_objects, f)
            /\ futures_done' = {}
            /\ error' = <<"RemoteError", f>>
            /\ pc' = "unwind"
            /\ UNCHANGED <<results, fut, task, work_queue, submits>>
       ELSE LET st == SubmitAll(NewFutures(tree, f), <<fut, task, work_queue, submits>>)
            IN /\ results' = Extended(results, tree, f)
               /\ fut' = st[1]
               /\ task' = st[2]
               /\ work_queue' = st[3]
               /\ submits' = st[4]
               /\ futures_to_objects' =
                      Pop(futures_to_objects, f) \cup Range(NewFutures(tree, f))
               /\ futures_done' = futures_done \ {f}
               /\ pc' = IF futures_done' = {} THEN "loop" ELSE "process"
               /\ UNCHANGED error
    /\ UNCHANGED <<tree, counter, cb_tmp, orch_tmp, list_calls, reports,
                   counter0, results0, othervars>>

\* the loop is left; lines 93-95 end in self._progress_report(None): its read ...
FinalReportRead ==
    /\ pc = "loop"
    /\ ~LoopContinues(futures_to_objects)
    /\ orch_tmp' = counter
    /\ reports' = reports + 1
    /\ pc' = "final_w"
    /\ UNCHANGED <<tree, results, counter, futures_to_objects, futures_done,
                   fut, task, work_queue, cb_tmp, error, submits, list_calls,
                   counter0, results0, othervars>>

\* ... and its write
FinalReportWrite ==
    /\ pc = "final_w"
    /\ counter' = Incremented(orch_tmp)
    /\ orch_tmp' = 0
    /\ pc' = "exit"
    /\ UNCHANGED <<tree, results, futures_to_objects, futures_done,
                   fut, task, work_queue, cb_tmp, error, submits, list_calls,
                   reports, counter0, results0, othervars>>

\* an executor left without waiting for its work items
ShutdownWithoutWaiting ==
    /\ pc \in {"exit", "unwind"}
    /\ pc' = IF pc = "exit" THEN "returned" ELSE "raised"
    /\ UNCHANGED <<tree, results, counter, futures_to_objects, futures_done,
                   fut, task, work_queue, cb_tmp, orch_tmp, error, submits,
                   list_calls, reports, counter0, results0, othervars>>

\* Leaving the with block, normally or by an exception, is
\* executor.shutdown(wait=True): every submitted work item runs to its end
\* first. Then line 96 returns self.results, or the exception goes on.
Shutdown ==
    /\ pc \in {"exit", "unwind"}
    /\ \A d \in Nodes : task[d] \in {"none", "finished"}
    /\ pc' = IF pc = "exit" THEN "returned" ELSE "raised"
    /\ UNCHANGED <<tree, results, counter, futures_to_objects, futures_done,
                   fut, task, work_queue, cb_tmp, orch_tmp, error, submits,
                   list_calls, reports, counter0, results0, othervars>>

\* the steps of the thread in walk and of the pool's threads once walk is called
WalkStep ==
    \/ SubmitRoot
    \/ Wait
    \/ \E f \in Nodes : ProcessFuture(f)
    \/ FinalReportRead
    \/ FinalReportWrite
    \/ Shutdown
    \/ \E d \in Nodes : Start(d)
    \/ \E d \in Nodes : ListWorkspace(d)
    \/ \E d \in Nodes : ReportRead(d)
    \/ \E d \in Nodes : ReportWrite(d)

Next ==
    \/ StartWalk
    \/ WalkStep

Spec == Init /\ [][Next]_vars

\* Threads that can take a step do not all stand still for ever: the weakest
\* fairness of a running thread pool. Nothing obliges a caller to call walk.
FairSpec == Spec /\ WF_vars(WalkStep)

(* ---- walk over trees with several directories under start_path ---- *)
\* Trees of MaxNodes + 1 entries with at least two directories directly under
\* the root: the trees in which several expansion tasks are outstanding at
\* once after the root was processed.
WideTrees ==
    { tr \in { [n |-> MaxNodes + 1, parent |-> p, otype |-> t] :
                 p \in { q \in [1..(MaxNodes + 1) -> 0..MaxNodes] :
                           /\ q[1] = 0
                           /\ \A i \in 2..(MaxNodes + 1) : q[i] \in 1..(i-1) },
                 t \in { u \in [1..(MaxNodes + 1) -> WalkTypes] : u[1] = "DIRECTORY" } } :
        /\ WellFormed(tr)
        /\ Cardinality({ d \in 2..tr.n : tr.parent[d] = Root /\ IsDirectory(tr, d) }) >= 2 }

\* a new WorkspaceListing in front of such a tree
InitWide ==
    /\ tree \in WideTrees
    /\ pc = "idle"
    /\ results = <<>>
    /\ counter = 0
    /\ futures_to_objects = {}
    /\ futures_done = {}
    /\ fut = NoTasks
    /\ task = NoTasks
    /\ work_queue = <<>>
    /\ cb_tmp = Zeros
    /\ orch_tmp = 0
    /\ error = <<"none", 0>>
    /\ submits = Zeros
    /\ list_calls = Zeros
    /\ reports = 0
    /\ counter0 = 0
    /\ results0 = 0
    /\ LimiterIdle
    /\ ListerIdle
    /\ RateIdle
    /\ ListingIdle
    /\ ExperimentsIdle
    /\ AnalyzeIdle

SpecWide == InitWide /\ [][Next]_vars

(* ======================= claims about walk ======================= *)
TreeNodes == 1..tree.n
Dirs == { d \in TreeNodes : IsDirectory(tree, d) }
Count(seq, x) == Cardinality({ i \in DOMAIN seq : seq[i] = x })
ListingFailed == \E d \in Nodes : fut[d] = "EXCEPTION"
RECURSIVE SumOver(_, _)
SumOver(f, S) ==
    IF S = {} THEN 0
    ELSE LET x == CHOOSE y \in S : TRUE IN f[x] + SumOver(f, S \ {x})

\* C1: a walk in which no remote call failed returns every node of the tree
\* exactly once and nothing else, so as many entries as the tree has.
C1_WalkReturnsEachNodeOnce ==
    pc = "returned" =>
        /\ \A n \in TreeNodes : Count(results, n) = 1
        /\ Range(results) \subseteq TreeNodes
        /\ Len(results) = tree.n

\* The same for the first walk of a WorkspaceListing only.
FirstWalkReturnsEachNodeOnce ==
    (pc = "returned" /\ results0 = 0) =>
        /\ \A n \in TreeNodes : Count(results, n) = 1
        /\ Range(results) \subseteq TreeNodes
        /\ Len(results) = tree.n

\* C4: a walk one of whose listings failed never returns a result, it ends by
\* raising the error of a failed listing; a walk that returns had no failed
\* listing and holds every node of the tree; a walk that raises raises a
\* remote error.
C4_FailedListingRaises ==
    /\ [](pc = "returned" =>
            /\ ~ListingFailed
            /\ error[1] = "none"
            /\ TreeNodes \subseteq Range(results))
    /\ [](pc = "raised" =>
            \/ error[1] = "StatusError"
            \/ error[1] = "RemoteError" /\ fut[error[2]] = "EXCEPTION")
    /\ (ListingFailed ~> pc = "raised")

C4_Witness ==
    /\ pc = "raised"
    /\ \E d \in Nodes : d # Root /\ fut[d] = "EXCEPTION" /\ error = <<"RemoteError", d>>

\* C5: after a walk failed in an expansion task, self.results holds no entry
\* of that walk.
C5_NothingRetainedAfterFailure ==
    (pc = "raised" /\ error[1] = "RemoteError") => Len(results) = results0

\* C6 as stated: after a successful walk over a tree of K entries the progress
\* counter equals K.
C6_CounterEqualsEntries ==
    pc = "returned" => counter = tree.n

\* C6 as amended: in a successful walk _progress_report runs once per
\* directory (its expansion task's done-callback) and once more at the end of
\* walk, and the counter grows by at least 1 and at most that many.
C6_OneReportPerDirectoryPlusOne ==
    pc = "returned" =>
        /\ reports = Cardinality(Dirs) + 1
        /\ \A d \in Dirs : task[d] = "finished"
        /\ counter >= counter0 + 1
        /\ counter <= counter0 + Cardinality(Dirs) + 1

C6_Witness ==
    /\ pc = "returned"
    /\ Cardinality(Dirs) = 2
    /\ tree.n = 3
    /\ counter = counter0 + 3

\* C7: in a walk a future is submitted at most once per entry and only for
\* directories, a listing call is made at most once per submitted future, and
\* when the walk returns every directory, the root included, was submitted
\* once and listed once: as many listing calls as directories.
C7_EachDirectoryListedOnce ==
    /\ \A d \in Nodes : submits[d] <= 1 /\ list_calls[d] <= submits[d]
    /\ \A d \in Nodes : submits[d] = 1 => d \in Dirs
    /\ pc = "returned" =>
          /\ \A d \in Dirs : submits[d] = 1 /\ list_calls[d] = 1
          /\ SumOver(list_calls, Nodes) = Cardinality(Dirs)
    /\ (pc = "raised" /\ error[1] = "RemoteError") =>
          \A d \in Nodes : list_calls[d] = submits[d]

C7_Witness ==
    /\ pc = "returned"
    /\ Cardinality(Dirs) = 1
    /\ tree.n = 3
    /\ SumOver(list_calls, Nodes) = 1

\* C8: a started walk ends, by returning unless a listing failed. It is past
\* its loop only with futures_to_objects empty and no future outstanding; it
\* iterates over done futures only while some are outstanding; and with
\* futures_to_objects empty it does not wait but goes on to its end.
C8_WalkTerminates ==
    /\ [](pc \in {"final_w", "exit", "returned"} =>
            /\ futures_to_objects = {}
            /\ \A d \in Nodes : fut[d] \in {"none", "RESULT"})
    /\ [](pc = "process" =>
            /\ futures_done # {}
            /\ futures_done \subseteq futures_to_objects)
    /\ []((pc = "loop" /\ futures_to_objects = {}) =>
            /\ ~ENABLED Wait
            /\ ENABLED FinalReportRead)
    /\ (pc = "submit_root" ~> (pc = "returned" \/ (pc = "raised" /\ ListingFailed)))

C8_Witness ==
    /\ pc = "returned"
    /\ Cardinality(Dirs) = 3 \/ (Cardinality(Dirs) = 2 /\ tree.parent[tree.n] = 2)

(* ---- the rate limiter: @sleep_and_retry @limits(calls=45, period=1) ---- *)
PeriodTicks == Period * TicksPerSecond

\* limits.__period_remaining: period - (clock() - last_reset)
PeriodRemaining(el) == PeriodTicks - el

\* num_calls after one pass through the wrapper of limits: reset when the
\* period is over, then count this attempt. The count is kept up to
\* Calls + 1: beyond the budget only "exceeded" is read from it.
NumCallsAfter(n, el) ==
    IF PeriodRemaining(el) <= 0 THEN 1 ELSE Min(n + 1, Calls + 1)

\* clock() - last_reset after that pass
ElapsedAfter(el) == IF PeriodRemaining(el) <= 0 THEN 0 ELSE el

\* limits raises RateLimitException when the attempts of the period exceed calls
LimitExceeded(n) == n > Calls

(* ---- threads calling WorkspaceListing._list_workspace ---- *)
Callers == 1..NumCallers

\* The limiter belongs to the class: when a caller arrives, earlier callers of
\* any WorkspaceListing may have used none, all but one or all of the budget
\* of the running period.
InitNumCalls == {0, Calls - 1, Calls}

InitLister ==
    /\ num_calls \in InitNumCalls
    /\ elapsed = 0
    /\ lc_task = [c \in Callers |-> "idle"]
    /\ lc_sleep = [c \in Callers |-> 0]
    /\ lc_attempts = [c \in Callers |-> 0]
    /\ lc_calls = [c \in Callers |-> 0]
    /\ WalkIdle
    /\ RateIdle
    /\ ListingIdle
    /\ ExperimentsIdle
    /\ AnalyzeIdle

\* a thread calls self._list_workspace(path)
Enter(c) ==
    /\ lc_task[c] = "idle"
    /\ lc_task' = [lc_task EXCEPT ![c] = "limiter"]
    /\ UNCHANGED <<lc_sleep, lc_attempts, lc_calls, limvars, walkvars, ratevars, listingvars,
                   experimentvars, analyzevars>>

\* limits without sleep_and_retry around it: the exception reaches the caller
ThrottledRaises(c) ==
    /\ lc_task' = [lc_task EXCEPT ![c] = "RateLimitException"]
    /\ UNCHANGED <<lc_sleep, lc_calls>>

\* sleep_and_retry catches the RateLimitException of limits and sleeps
\* exception.period_remaining before its loop calls the wrapper again
Throttled(c) ==
    /\ lc_task' = [lc_task EXCEPT ![c] = "sleep"]
    /\ lc_sleep' = [lc_sleep EXCEPT ![c] = PeriodRemaining(elapsed)]
    /\ UNCHANGED lc_calls

\* a retry loop that catches every exception
RemoteFailedRetried(c) ==
    /\ lc_task' = [lc_task EXCEPT ![c] = "limiter"]
    /\ UNCHANGED lc_sleep

\* the remote call raised: neither wrapper catches it
RemoteFailed(c) ==
    /\ lc_task' = [lc_task EXCEPT ![c] = "RemoteError"]
    /\ UNCHANGED lc_sleep

\* line 51 behind the limiter: self._ws.workspace.list(path) returns or raises
RemoteList(c) ==
    /\ lc_calls' = [lc_calls EXCEPT ![c] = @ + 1]
    /\ \/ /\ lc_task' = [lc_task EXCEPT ![c] = "returned"]
          /\ UNCHANGED lc_sleep
       \/ RemoteFailed(c)

\* One pass of the loop of sleep_and_retry around the wrapper of limits, by a
\* caller that enters _list_workspace or whose time.sleep is over. The
\* wrapper counts the attempt under its lock and calls the function outside.
Attempt(c) ==
    /\ \/ lc_task[c] = "limiter"
       \/ lc_task[c] = "sleep" /\ lc_sleep[c] = 0
    /\ lc_attempts' = [lc_attempts EXCEPT ![c] = @ + 1]
    /\ num_calls' = NumCallsAfter(num_calls, elapsed)
    /\ elapsed' = ElapsedAfter(elapsed)
    /\ IF LimitExceeded(num_calls')
       THEN Throttled(c)
       ELSE RemoteList(c)
    /\ UNCHANGED <<walkvars, ratevars, listingvars, experimentvars, analyzevars>>

\* The clock advances. Only the limiter reads it, so it is stepped while a
\* caller is in _list_workspace and the period is not yet over.
Tick ==
    /\ \E c \in Callers : lc_task[c] \in {"limiter", "sleep"}
    /\ elapsed < PeriodTicks
    /\ elapsed' = elapsed + 1
    /\ lc_sleep' = [c \in Callers |-> Max(0, lc_sleep[c] - 1)]
    /\ UNCHANGED <<num_calls, lc_task, lc_attempts, lc_calls, walkvars, ratevars,
                   listingvars, experimentvars, analyzevars>>

ListerStep ==
    \/ \E c \in Callers : Attempt(c)
    \/ Tick

NextLister ==
    \/ \E c \in Callers : Enter(c)
    \/ ListerStep

SpecLister == InitLister /\ [][NextLister]_vars

\* Time advances and a thread inside _list_workspace that can run does run.
FairLister ==
    /\ SpecLister
    /\ WF_vars(Tick)
    /\ \A c \in Callers : WF_vars(Attempt(c))

(* =================== claims about _list_workspace =================== *)
\* C3: exceeding the budget never reaches the caller as an error and never
\* makes a call return without its listing made; a caller put to sleep by the
\* limiter, and every caller in _list_workspace, gets its listing made.
C3_ThrottledCallIsMade ==
    /\ [](\A c \in Callers : lc_task[c] # "RateLimitException")
    /\ [](\A c \in Callers : lc_task[c] \in {"returned", "RemoteError"} => lc_calls[c] = 1)
    /\ \A c \in Callers : (lc_task[c] = "sleep" ~> lc_calls[c] = 1)
    /\ \A c \in Callers : (lc_task[c] = "limiter" ~> lc_calls[c] = 1)

C3_Witness ==
    \E c \in Callers :
        /\ lc_task[c] = "returned"
        /\ lc_attempts[c] = 2
        /\ lc_calls[c] = 1

\* C9: a listing that failed was issued exactly once and its caller has the
\* remote error; no listing is issued twice; a caller passes the limiter
\* again only out of the sleep that follows an exceeded budget.
C9_NoRetryOfRemoteFailure ==
    /\ [](\A c \in Callers : lc_task[c] = "RemoteError" => lc_calls[c] = 1)
    /\ [](\A c \in Callers : lc_calls[c] <= 1)
    /\ [][\A c \in Callers :
            (lc_attempts'[c] > lc_attempts[c] /\ lc_attempts[c] >= 1) =>
                (lc_task[c] = "sleep" /\ lc_calls[c] = 0)]_vars

C9_Witness ==
    \E c \in Callers :
        /\ lc_task[c] = "RemoteError"
        /\ lc_attempts[c] = 2
        /\ \E o \in Callers : o # c /\ lc_task[o] = "RemoteError"

(* ---- the limiter under more callers than its budget ---- *)
\* callers that all want one listing at once: one period's budget and more
RateCallers == Calls + ExtraCallers

RECURSIVE SumSeq(_)
SumSeq(s) == IF s = <<>> THEN 0 ELSE Head(s) + SumSeq(Tail(s))

\* a new limiter, as the class definition builds it, and every caller ready
InitRate ==
    /\ num_calls = 0
    /\ elapsed = 0
    /\ rl_ready = RateCallers
    /\ rl_sleep = [k \in 0..PeriodTicks |-> 0]
    /\ rl_window = [k \in 1..PeriodTicks |-> 0]
    /\ WalkIdle
    /\ ListerIdle
    /\ ListingIdle
    /\ ExperimentsIdle
    /\ AnalyzeIdle

\* One pass through the wrapper of limits. A caller let through makes the
\* remote call of line 51 at once, in the current tick (a caller preempted
\* between the two would only issue its call later still).
RatePass ==
    /\ num_calls' = NumCallsAfter(num_calls, elapsed)
    /\ elapsed' = ElapsedAfter(elapsed)
    /\ rl_window' = IF LimitExceeded(num_calls') THEN rl_window
                    ELSE [rl_window EXCEPT ![PeriodTicks] = @ + 1]
    /\ UNCHANGED <<walkvars, listervars, listingvars, experimentvars, analyzevars>>

\* a caller enters _list_workspace: it is let through or put to sleep
RateAttempt ==
    /\ rl_ready > 0
    /\ RatePass
    /\ rl_ready' = rl_ready - 1
    /\ rl_sleep' = IF LimitExceeded(num_calls')
                   THEN [rl_sleep EXCEPT ![PeriodRemaining(elapsed)] = @ + 1]
                   ELSE rl_sleep

\* a caller whose time.sleep is over passes the limiter again
RateRetry ==
    /\ rl_sleep[0] > 0
    /\ RatePass
    /\ rl_sleep' = IF LimitExceeded(num_calls')
                   THEN [rl_sleep EXCEPT ![0] = @ - 1, ![PeriodRemaining(elapsed)] = @ + 1]
                   ELSE [rl_sleep EXCEPT ![0] = @ - 1]
    /\ UNCHANGED rl_ready

\* The clock advances by a tick: the elapsed time grows (kept up to the
\* period), sleepers come nearer to waking, and the calls of the oldest tick
\* leave the last second.
RateTick ==
    /\ rl_ready + SumSeq([k \in 1..(PeriodTicks + 1) |-> rl_sleep[k - 1]]) > 0
    /\ elapsed' = Min(elapsed + 1, PeriodTicks)
    /\ rl_sleep' = [k \in 0..PeriodTicks |->
                      IF k = 0 THEN rl_sleep[0] + rl_sleep[1]
                      ELSE IF k = PeriodTicks THEN 0 ELSE rl_sleep[k + 1]]
    /\ rl_window' = Append(Tail(rl_window), 0)
    /\ UNCHANGED <<num_calls, rl_ready, walkvars, listervars, listingvars,
                   experimentvars, analyzevars>>

NextRate ==
    \/ RateAttempt
    \/ RateRetry
    \/ RateTick

SpecRate == InitRate /\ [][NextRate]_vars

(* ============== claims about the rate of listing calls ============== *)
\* remote listing calls issued in the last second, the current tick included
CallsInLastSecond == SumSeq(rl_window)

\* C2: in no window of one second are more than 45 listing calls issued,
\* whichever callers issue them and wherever the window lies.
C2_AtMostCallsPerRollingSecond == CallsInLastSecond <= Calls

(* ---- _convert_object_type_to_request_type and workspace_listing ---- *)
\* workspace.ObjectType as an ObjectInfo carries it: the members the match
\* names, DASHBOARD for any other member, and "None" for no object_type
ObjectTypes == {"NOTEBOOK", "DIRECTORY", "LIBRARY", "REPO", "FILE", "DASHBOARD", "None"}

\* the match without its case for FILE
ConvertWithoutFile(object_type) ==
    CASE object_type = "NOTEBOOK" -> "NOTEBOOKS"
      [] object_type = "DIRECTORY" -> "DIRECTORIES"
      [] object_type = "REPO" -> "REPOS"
      [] OTHER -> "None"

\* the match of lines 141-154; a subject no case matches falls out of the
\* match and the function ends without a return statement: None
ConvertObjectTypeToRequestType(object_type) ==
    CASE object_type = "NOTEBOOK" -> "NOTEBOOKS"
      [] object_type = "DIRECTORY" -> "DIRECTORIES"
      [] object_type = "LIBRARY" -> "None"
      [] object_type = "REPO" -> "REPOS"
      [] object_type = "FILE" -> "FILES"
      [] object_type = "None" -> "None"
      [] OTHER -> "None"

\* str(object_id) of an int: its decimal digits
Digit(n) == <<"0", "1", "2", "3", "4", "5", "6", "7", "8", "9">>[n + 1]
\* a conversion that keeps the last digit only
StrOfLastDigit(n) == <<Digit(n % 10)>>

RECURSIVE Str(_)
Str(n) == IF n < 10 THEN <<Digit(n)>> ELSE Str(n \div 10) \o <<Digit(n % 10)>>

\* object_id of the i-th entry of a walk result
ObjectId(i) == 7 * i

\* the lists ws_listing.walk(start_path) may return, up to MaxEntries long
WalkResults ==
    UNION { { [i \in 1..n |-> [object_id |-> ObjectId(i), object_type |-> t[i]]] :
                t \in [1..n -> ObjectTypes] }
            : n \in 0..MaxEntries }

InitListing ==
    /\ entries \in WalkResults
    /\ idx = 0
    /\ request_type = "None"
    /\ yielded = <<>>
    /\ WalkIdle
    /\ LimiterIdle
    /\ ListerIdle
    /\ RateIdle
    /\ ExperimentsIdle
    /\ AnalyzeIdle

\* lines 164-167: one iteration of the loop of inner()
ListingStep ==
    /\ idx < Len(entries)
    /\ idx' = idx + 1
    /\ request_type' = ConvertObjectTypeToRequestType(entries[idx + 1].object_type)
    /\ yielded' = IF request_type' # "None"
                  THEN Append(yielded, [object_id |-> Str(entries[idx + 1].object_id),
                                        request_type |-> request_type'])
                  ELSE yielded
    /\ UNCHANGED <<entries, walkvars, limvars, listervars, ratevars,
                   experimentvars, analyzevars>>

NextListing == ListingStep

SpecListing == InitListing /\ [][NextListing]_vars

(* ======= claims about _convert_object_type_to_request_type ======= *)
\* C10: for the entry converted last the request type is the one of the
\* table: NOTEBOOKS, DIRECTORIES, REPOS or FILES for NOTEBOOK, DIRECTORY, REPO
\* or FILE, and none for LIBRARY, for no type and for any other type; the
\* conversion has a value for every type.
C10_ConversionTable ==
    idx > 0 =>
        LET object_type == entries[idx].object_type
        IN /\ object_type = "NOTEBOOK" => request_type = "NOTEBOOKS"
           /\ object_type = "DIRECTORY" => request_type = "DIRECTORIES"
           /\ object_type = "REPO" => request_type = "REPOS"
           /\ object_type = "FILE" => request_type = "FILES"
           /\ object_type \notin {"NOTEBOOK", "DIRECTORY", "REPO", "FILE"} =>
                  request_type = "None"
           /\ request_type \in {"NOTEBOOKS", "DIRECTORIES", "REPOS", "FILES", "None"}

C10_Witness ==
    /\ idx = 3
    /\ entries[1].object_type = "FILE"
    /\ entries[2].object_type = "LIBRARY"
    /\ entries[3].object_type = "DASHBOARD"
    /\ request_type = "None"
    /\ Len(yielded) = 1

(* ================= claims about workspace_listing ================= *)
\* the types an entry gets a permission request for, with its request type
RequestTable ==
    [NOTEBOOK |-> "NOTEBOOKS", DIRECTORY |-> "DIRECTORIES",
     REPO |-> "REPOS", FILE |-> "FILES"]

\* the number a string of decimal digits denotes
DigitValue(ch) == CHOOSE v \in 0..9 : Digit(v) = ch
RECURSIVE Value(_)
Value(str) ==
    IF str = <<>> THEN 0
    ELSE 10 * Value(SubSeq(str, 1, Len(str) - 1)) + DigitValue(str[Len(str)])

\* positions among the first k entries whose type is in the table, in order
RECURSIVE Kept(_)
Kept(k) ==
    IF k = 0 THEN <<>>
    ELSE Kept(k - 1) \o (IF entries[k].object_type \in DOMAIN RequestTable
                         THEN <<k>> ELSE <<>>)

\* C11: the records yielded for the entries consumed so far are, in order, one
\* per entry of type NOTEBOOK, DIRECTORY, REPO or FILE, with the decimal string
\* of the entry's object_id and the request type of the table, and none for
\* any other entry.
C11_OneRequestPerClassifiedEntry ==
    LET kept == Kept(idx)
    IN /\ Len(yielded) = Len(kept)
       /\ \A j \in 1..Len(kept) :
            /\ yielded[j].request_type = RequestTable[entries[kept[j]].object_type]
            /\ yielded[j].object_id # <<>>
            /\ Value(yielded[j].object_id) = entries[kept[j]].object_id

C11_Witness ==
    /\ idx = 3
    /\ Len(entries) = 3
    /\ entries[1].object_type = "NOTEBOOK"
    /\ entries[2].object_type = "LIBRARY"
    /\ entries[3].object_type = "REPO"
    /\ yielded = << [object_id |-> <<"7">>, request_type |-> "NOTEBOOKS"],
                    [object_id |-> <<"2", "1">>, request_type |-> "REPOS"] >>

(* ---- experiments_listing ---- *)
\* tags an experiment may carry: the two that mark a notebook experiment, one
\* of their keys with another value, and an unrelated key
ExperimentTags ==
    { [key |-> "mlflow.experimentType", value |-> "NOTEBOOK"],
      [key |-> "mlflow.experiment.sourceType", value |-> "REPO_NOTEBOOK"],
      [key |-> "mlflow.experimentType", value |-> "REPO_NOTEBOOK"],
      [key |-> "team", value |-> "NOTEBOOK"] }

\* experiment.tags: None, or a list of up to MaxTags tags
NoTags == [is_none |-> TRUE, items |-> <<>>]
TagLists ==
    {NoTags} \cup
    { [is_none |-> FALSE, items |-> l] :
        l \in UNION { [1..n -> ExperimentTags] : n \in 0..MaxTags } }

\* a filter on the key alone
NbTagByKey(tags) ==
    SelectSeq(tags, LAMBDA t : t.key = "mlflow.experimentType")

\* line 116
NbTag(tags) ==
    SelectSeq(tags, LAMBDA t : t.key = "mlflow.experimentType" /\ t.value = "NOTEBOOK")

\* lines 118-120
RepoNbTag(tags) ==
    SelectSeq(tags, LAMBDA t : /\ t.key = "mlflow.experiment.sourceType"
                               /\ t.value = "REPO_NOTEBOOK")

\* lines 115-122: the experiment is passed over by "continue"
FilteredOut(tags) ==
    /\ ~tags.is_none
    /\ tags.items # <<>>
    /\ (NbTag(tags.items) # <<>> \/ RepoNbTag(tags.items) # <<>>)

InitExperiments ==
    /\ experiments = <<>>
    /\ ex_yielded = <<>>
    /\ WalkIdle
    /\ LimiterIdle
    /\ ListerIdle
    /\ RateIdle
    /\ ListingIdle
    /\ AnalyzeIdle

\* lines 110-124: one iteration of the loop of inner() over the next
\* experiment list_experiments() gives
ExperimentsStep ==
    /\ Len(experiments) < MaxExperiments
    /\ \E tl \in TagLists :
         LET experiment == [experiment_id |-> Len(experiments) + 1, tags |-> tl]
         IN /\ experiments' = Append(experiments, experiment)
            /\ ex_yielded' = IF FilteredOut(experiment.tags)
                             THEN ex_yielded
                             ELSE Append(ex_yielded, experiment)
    /\ UNCHANGED <<walkvars, limvars, listervars, ratevars, listingvars, analyzevars>>

NextExperiments == ExperimentsStep

SpecExperiments == InitExperiments /\ [][NextExperiments]_vars

(* ================ claims about experiments_listing ================ *)
\* an experiment of a notebook: it carries one of the two marking tags
NotebookExperiment(e) ==
    \E i \in DOMAIN e.tags.items :
        \/ e.tags.items[i] = [key |-> "mlflow.experimentType", value |-> "NOTEBOOK"]
        \/ e.tags.items[i] = [key |-> "mlflow.experiment.sourceType", value |-> "REPO_NOTEBOOK"]

\* the first k experiments without those of notebooks, in registry order
RECURSIVE OtherExperiments(_)
OtherExperiments(k) ==
    IF k = 0 THEN <<>>
    ELSE OtherExperiments(k - 1) \o (IF NotebookExperiment(experiments[k])
                                     THEN <<>> ELSE <<experiments[k]>>)

\* C12: the experiments yielded so far are, in registry order, exactly the
\* listed experiments that carry neither mlflow.experimentType = NOTEBOOK nor
\* mlflow.experiment.sourceType = REPO_NOTEBOOK; one with no tags, an empty
\* tag list, unrelated tags or one of the keys with another value is yielded.
C12_NotebookExperimentsExcluded ==
    /\ ex_yielded = OtherExperiments(Len(experiments))
    /\ \A k \in DOMAIN experiments :
         (\/ experiments[k].tags.is_none
          \/ experiments[k].tags.items = <<>>
          \/ \A i \in DOMAIN experiments[k].tags.items :
               experiments[k].tags.items[i] \in
                   { [key |-> "mlflow.experimentType", value |-> "REPO_NOTEBOOK"],
                     [key |-> "team", value |-> "NOTEBOOK"] })
         => \E j \in DOMAIN ex_yielded : ex_yielded[j] = experiments[k]

C12_Witness ==
    /\ Len(experiments) = 2
    /\ experiments[1].tags.items =
           << [key |-> "mlflow.experimentType", value |-> "REPO_NOTEBOOK"],
              [key |-> "team", value |-> "NOTEBOOK"] >>
    /\ experiments[2].tags.items =
           << [key |-> "team", value |-> "NOTEBOOK"],
              [key |-> "mlflow.experiment.sourceType", value |-> "REPO_NOTEBOOK"] >>
    /\ ex_yielded = <<experiments[1]>>

(* ============ more claims about WorkspaceListing.walk ============ *)
\* C13: every walk on a WorkspaceListing starts from empty results and a zero
\* counter, whatever walks went before, so a walk that returns holds no entry
\* twice.
C13_WalkStartsFromEmptyState ==
    /\ pc # "idle" => (results0 = 0 /\ counter0 = 0)
    /\ pc = "returned" => \A n \in TreeNodes : Count(results, n) <= 1

\* C14: the orchestrator goes on as soon as one outstanding future is done,
\* whatever the others are doing: wait can return then, the futures it
\* returned are done ones, and processing a future submits a task for each
\* directory of its listing in that same step.
C14_WaitsForAnyNotAll ==
    /\ []((pc = "loop" /\ \E f \in futures_to_objects : fut[f] \in FutureDone)
            => ENABLED Wait)
    /\ [](pc = "process" => \A f \in futures_done : fut[f] \in FutureDone)
    /\ [][\A f \in Nodes :
            (pc = "process" /\ f \in futures_to_objects /\ f \notin futures_to_objects'
               /\ pc' # "unwind")
            => \A d \in Dirs :
                 tree.parent[d] = f =>
                    /\ submits'[d] = submits[d] + 1
                    /\ task'[d] = "queued"
                    /\ d \in futures_to_objects']_vars

\* a directory found by one task is submitted while a task of the same round
\* as its parent is still outstanding and not done
C14_Witness ==
    \E f, g, d \in TreeNodes :
        /\ f # g
        /\ tree.parent[f] = tree.parent[g]
        /\ tree.parent[d] = f
        /\ submits[d] = 1
        /\ g \in futures_to_objects
        /\ fut[g] \in {"PENDING", "RUNNING"}

\* _progress_report calls of this walk that have run to their end
ReportsDone ==
    Cardinality({ d \in Nodes : task[d] = "finished" })
        + (IF pc \in {"exit", "returned"} THEN 1 ELSE 0)

\* C15: no increment of the counter is lost: after n calls of _progress_report
\* have run in a walk the counter has grown by exactly n.
C15_NoIncrementLost == counter = counter0 + ReportsDone

\* the other half of C15: the counter never decreases
CounterNeverDecreases == [][counter' >= counter]_vars

\* C16: nothing is submitted and no listing is issued before get_status has
\* returned the root; a walk whose get_status failed has that error, has
\* submitted and listed nothing and leaves the results empty.
C16_RootResolvedFirst ==
    /\ (\E d \in Nodes : submits[d] > 0) =>
          (Len(results) > results0 /\ results[results0 + 1] = Root)
    /\ (\E d \in Nodes : list_calls[d] > 0) => submits[Root] = 1
    /\ error[1] = "StatusError" =>
          /\ pc = "raised"
          /\ \A d \in Nodes : submits[d] = 0 /\ list_calls[d] = 0
          /\ results = <<>>

\* The same with the results left as the walk found them.
RootResolvedBeforeWorkers ==
    /\ (\E d \in Nodes : submits[d] > 0) =>
          (Len(results) > results0 /\ results[results0 + 1] = Root)
    /\ (\E d \in Nodes : list_calls[d] > 0) => submits[Root] = 1
    /\ error[1] = "StatusError" =>
          /\ pc = "raised"
          /\ \A d \in Nodes : submits[d] = 0 /\ list_calls[d] = 0
          /\ Len(results) = results0

\* C17: a step of a worker (its work item moves on) leaves futures_to_objects
\* and self.results as they are; a step of a done-callback leaves everything
\* of the walk but the counter as it is; and whenever futures_to_objects or
\* self.results change, no work item moves: the step is one of walk itself.
C17_OnlyOrchestratorChangesFrontier ==
    [][/\ (\E d \in Nodes : /\ task[d] \in {"queued", "list", "report", "report_w"}
                            /\ task'[d] \notin {task[d], "none"})
            => (futures_to_objects' = futures_to_objects /\ results' = results)
       /\ (\E d \in Nodes : /\ task[d] \in {"report", "report_w"}
                            /\ task'[d] \notin {task[d], "none"})
            => UNCHANGED <<tree, pc, results, futures_to_objects, futures_done,
                           fut, work_queue, error>>
       /\ (futures_to_objects' # futures_to_objects \/ results' # results)
            => /\ pc \in {"idle", "returned", "raised", "submit_root", "process"}
               /\ \A d \in Nodes : task'[d] # task[d] => "none" \in {task[d], task'[d]}
      ]_vars

\* the root's work item and its callback have run to their end while the root
\* is still in futures_to_objects and nothing but the root in the results
C17_Witness ==
    /\ pc = "loop"
    /\ task[Root] = "finished"
    /\ futures_to_objects = {Root}
    /\ WorkspaceList(tree, Root) # <<>>
    /\ Len(results) = results0 + 1
    /\ counter = counter0 + 1

\* work items a thread of the pool is running: in the listing or in the callback
Running == { d \in Nodes : task[d] \in {"list", "report", "report_w"} }

\* C18: never more than num_threads work items are running; with num_threads
\* running no queued item is started; the queued items are those of the work
\* queue; a queued item leaves the queue only by being started and a started
\* one goes on only by its listing call; and no item stays queued or before
\* its listing for ever.
C18_AtMostNumThreadsExecuting ==
    /\ [](Cardinality(Running) <= NumThreads)
    /\ [](Cardinality(Running) = NumThreads => \A d \in Nodes : ~ENABLED Start(d))
    /\ [](\A d \in Nodes : task[d] = "queued" <=> d \in Range(work_queue))
    /\ [][\A d \in Nodes :
            /\ (task[d] = "queued" /\ task'[d] # "queued") => task'[d] = "list"
            /\ (task[d] = "list" /\ task'[d] # "list") =>
                   (task'[d] = "report" /\ list_calls'[d] = list_calls[d] + 1)]_vars
    /\ ((\E d \in Nodes : task[d] \in {"queued", "list"})
            ~> (\A d \in Nodes : task[d] \notin {"queued", "list"}))

C18_Witness ==
    /\ Cardinality(Running) = NumThreads
    /\ \E d \in Nodes : task[d] = "queued" /\ fut[d] = "PENDING"
    /\ \E d \in Running : task[d] = "list"

(* ---- _list_and_analyze over one listing ---- *)
\* object types of listed children: DIRECTORY and two that are not
ListedTypes == {"DIRECTORY", "FILE", "NOTEBOOK"}

\* a directory (node 1) whose listing returns up to MaxChildren children of
\* any types in any arrangement
Listings ==
    UNION { { [n |-> k + 1,
               parent |-> [i \in 1..(k + 1) |-> IF i = 1 THEN 0 ELSE 1],
               otype |-> [i \in 1..(k + 1) |-> IF i = 1 THEN "DIRECTORY" ELSE t[i - 1]]] :
                t \in [1..k -> ListedTypes] }
            : k \in 0..MaxChildren }

InitAnalyze ==
    /\ an_tree \in Listings
    /\ an_result = <<>>
    /\ WalkIdle
    /\ LimiterIdle
    /\ ListerIdle
    /\ RateIdle
    /\ ListingIdle
    /\ ExperimentsIdle

\* lines 53-64: self._list_and_analyze(obj) returns
AnalyzeStep ==
    /\ an_result = <<>>
    /\ an_result' = ListAndAnalyze(an_tree, Root)
    /\ UNCHANGED <<an_tree, walkvars, limvars, listervars, ratevars, listingvars,
                   experimentvars>>

NextAnalyze == AnalyzeStep

SpecAnalyze == InitAnalyze /\ [][NextAnalyze]_vars

(* ================= claims about _list_and_analyze ================= *)
Increasing(seq) == \A i, j \in DOMAIN seq : i < j => seq[i] < seq[j]

\* C19: what _list_and_analyze returns is a partition of the listed children:
\* each child is once in one of the two groups, the first group holds the
\* children of type DIRECTORY and the second the others, each in listing order.
C19_AnalyzePartitions ==
    an_result # <<>> =>
        LET directories == an_result[1]
            others == an_result[2]
            children == 2..an_tree.n
        IN /\ \A c \in children : Count(directories, c) + Count(others, c) = 1
           /\ Range(directories) \cup Range(others) \subseteq children
           /\ \A c \in Range(directories) : an_tree.otype[c] = "DIRECTORY"
           /\ \A c \in Range(others) : an_tree.otype[c] # "DIRECTORY"
           /\ Increasing(directories)
           /\ Increasing(others)

C19_Witness ==
    /\ an_tree.otype = <<"DIRECTORY", "DIRECTORY", "FILE", "DIRECTORY", "NOTEBOOK">>
    /\ an_result = << <<2, 4>>, <<3, 5>> >>

(* ================ claims about a walk that fails ================ *)
\* C20: once walk has met the exception of a future it submits nothing, adds
\* nothing to the results and takes nothing more out of futures_to_objects; no
\* queued work item is dropped; the walk does end by raising; and when it has
\* raised, every task it submitted has made its listing call and has finished.
C20_NoWorkAfterObservedFailure ==
    /\ [][pc = "unwind" =>
            /\ results' = results
            /\ submits' = submits
            /\ futures_to_objects' = futures_to_objects
            /\ \A d \in Nodes : task[d] = "queued" => task'[d] \in {"queued", "list"}]_vars
    /\ []((pc = "raised" /\ error[1] = "RemoteError") =>
            \A d \in Nodes :
                submits[d] = 1 => (task[d] = "finished" /\ list_calls[d] = 1))
    /\ [](pc = "unwind" => error[1] = "RemoteError" /\ fut[error[2]] = "EXCEPTION")
    /\ (pc = "unwind" ~> pc = "raised")

\* the failure is met while a task submitted before is still queued
C20_Witness ==
    /\ pc = "unwind"
    /\ \E d \in Nodes : task[d] = "queued" /\ submits[d] = 1 /\ list_calls[d] = 0

====
